---------------------------- MODULE Spec2Model ----------------------------
(***************************************************************************)
(* CardinalityEstimator<P, W> of src/src/estimator.rs as a state machine.  *)
(*                                                                         *)
(* Machine words are modelled by the set of their one-bits: a u64 hash is  *)
(* a subset of 0..63 and a u32 register word a subset of 0..31, so that    *)
(* and / or / not / shifts are set operations and no value exceeds the     *)
(* model checker's integer range.  Encoded hashes (u32 values below 2^31)  *)
(* and ranks are integers.                                                 *)
(***************************************************************************)
EXTENDS Integers, Sequences, FiniteSets, TLC

VARIABLES
    P,      \* const generic P of the estimator type
    W,      \* const generic W of the estimator type
    a,      \* the estimator under test (`self`, `lhs`, `e` of the tests)
    b,      \* a second estimator (`rhs` of merge)
    x,      \* result slot: a.clone(), or a.clone() merged with b
    y,      \* result slot: b.clone() merged with a
    na,     \* how many hashes of StreamA were fed to a
    nb,     \* how many hashes of StreamB were fed to b
    merges, \* how many merges a was the left-hand side of
    seen_a, \* encoded hashes inserted into a (directly or by merge)
    seen_b, \* encoded hashes inserted into b
    op,     \* the last operation: its name, the estimator it started from,
            \* the encoded hash it inserted, whether that hash was fed before
    heap    \* the allocator: the buffers allocated and freed so far, and
            \* the buffer the state word of a and of b points to

vars == <<P, W, a, b, x, y, na, nb, merges, seen_a, seen_b, op, heap>>

---------------------------------------------------------------------------
(* Words as bit sets *)

Pow2(n) == 2 ^ n

\* the bits of a non-negative integer below 2^31
Bits(n) == {i \in 0..30 : (n \div Pow2(i)) % 2 = 1}

RECURSIVE Val(_)
\* the integer a bit set below bit 31 stands for
Val(s) == IF s = {} THEN 0
          ELSE LET i == CHOOSE j \in s : TRUE IN Pow2(i) + Val(s \ {i})

\* (1 << n) - 1
Mask(n) == 0..(n - 1)

Shl32(s, k) == {i + k : i \in s} \cap (0..31)

Shr(s, k) == {i - k : i \in {j \in s : j >= k}}

Not32(s) == (0..31) \ s

Not64(s) == (0..63) \ s

Min(S) == CHOOSE m \in S : \A n \in S : m <= n

\* u64::trailing_zeros: 64 for the value 0
trailing_zeros(s) == IF s = {} THEN 64 ELSE Min(s)

RECURSIVE next_power_of_two(_)
\* usize::next_power_of_two, for n >= 1
next_power_of_two(n) == IF n <= 1 THEN 1 ELSE 2 * next_power_of_two((n + 1) \div 2)

div_ceil(n, d) == (n + d - 1) \div d

---------------------------------------------------------------------------
(* Constants of the program *)

Small == 0

Slice == 1

HashSet == 2

HyperLogLog == 3

MAX_SLICE_CAPACITY == 16

\* const M: usize = 1 << P
M == Pow2(P)

\* const HLL_SLICE_LEN: usize = Self::M * W / 32 + 3
HLL_SLICE_LEN == (M * W) \div 32 + 3

\* const VALID_PARAMS: () = assert!(P >= 4 && P <= 18 && W >= 4 && W <= 6)
VALID_PARAMS(p, w) == p >= 4 /\ p <= 18 /\ w >= 4 /\ w <= 6

---------------------------------------------------------------------------
(* f32, as far as set_register uses it: non-negative normal values         *)
(* m * 2^e with 2^23 <= m < 2^24 (m = 0 for 0.0), round to nearest even.   *)

F32Zero == [m |-> 0, e |-> 0]

RECURSIVE F32Norm(_, _)
\* the f32 nearest to n * 2^e (n < 2^28), ties to even
F32Norm(n, e) ==
    IF n = 0 THEN F32Zero
    ELSE IF n < Pow2(23) THEN F32Norm(2 * n, e - 1)
    ELSE IF n < Pow2(24) THEN [m |-> n, e |-> e]
    ELSE LET s   == Min({k \in 1..5 : n \div Pow2(k) < Pow2(24)})
             q   == n \div Pow2(s)
             r   == n % Pow2(s)
             up  == r > Pow2(s - 1) \/ (r = Pow2(s - 1) /\ q % 2 = 1)
         IN IF up /\ q + 1 = Pow2(24) THEN [m |-> Pow2(23), e |-> e + s + 1]
            ELSE [m |-> (IF up THEN q + 1 ELSE q), e |-> e + s]

\* the mantissa of v aligned d bits below, with three extra bits and a sticky bit
F32Align(v, d) ==
    IF d >= 27 THEN (IF v.m = 0 THEN 0 ELSE 1)
    ELSE LET w == 8 * v.m
         IN (w \div Pow2(d)) + (IF w % Pow2(d) # 0 /\ (w \div Pow2(d)) % 2 = 0 THEN 1 ELSE 0)

F32Less(u, v) == v.m # 0 /\ (u.m = 0 \/ u.e < v.e \/ (u.e = v.e /\ u.m < v.m))

\* u + v
F32Add(u, v) ==
    IF u.m = 0 THEN v
    ELSE IF v.m = 0 THEN u
    ELSE LET hi == IF F32Less(u, v) THEN v ELSE u
             lo == IF F32Less(u, v) THEN u ELSE v
         IN F32Norm(8 * hi.m + F32Align(lo, hi.e - lo.e), hi.e - 3)

\* u - v, for u >= v
F32Sub(u, v) ==
    IF v.m = 0 THEN u
    ELSE F32Norm(8 * u.m - F32Align(v, u.e - v.e), u.e - 3)

\* (n as f32) for a power of two n = 2^k
F32OfPow2(k) == [m |-> Pow2(23), e |-> k - 23]

\* 1.0 / ((1u64 << rank) as f32): a release build takes the shift amount
\* modulo 64
F32InvPow2(rank) == F32OfPow2(-(rank % 64))

---------------------------------------------------------------------------
(* Register codec *)

\* get_register::<W>(data, idx)
get_register(data, idx) ==
    LET bit_idx == idx * W
        u32_idx == (bit_idx \div 32) + 2
        bit_pos == bit_idx % 32
        bits_1  == IF W < 32 - bit_pos THEN W ELSE 32 - bit_pos
        bits_2  == W - bits_1
        mask_1  == Mask(bits_1)
        mask_2  == Mask(bits_2)
    IN Val((Shr(data[u32_idx], bit_pos) \cap mask_1)
           \cup Shl32(data[u32_idx + 1] \cap mask_2, bits_1))

\* set_register::<W>(data, idx, old_rank, new_rank)
set_register(data, idx, old_rank, new_rank) ==
    LET bit_idx == idx * W
        u32_idx == (bit_idx \div 32) + 2
        bit_pos == bit_idx % 32
        bits_1  == IF W < 32 - bit_pos THEN W ELSE 32 - bit_pos
        bits_2  == W - bits_1
        mask_1  == Mask(bits_1)
        mask_2  == Mask(bits_2)
        w0      == (data[u32_idx] \cap Not32(Shl32(mask_1, bit_pos)))
                   \cup Shl32(Bits(new_rank) \cap mask_1, bit_pos)
        w1      == (data[u32_idx + 1] \cap Not32(mask_2))
                   \cup (Shr(Bits(new_rank), bits_1) \cap mask_2)
        zeros   == data[0] - (IF old_rank = 0 /\ data[0] > 0 THEN 1 ELSE 0)
        sum     == F32Add(F32Sub(data[1], F32InvPow2(old_rank)), F32InvPow2(new_rank))
    IN [data EXCEPT ![u32_idx] = w0, ![u32_idx + 1] = w1, ![0] = zeros, ![1] = sum]

\* insert_into_hll(data, idx, new_rank)
insert_into_hll(data, idx, new_rank) ==
    LET old_rank == get_register(data, idx)
    IN IF new_rank > old_rank THEN set_register(data, idx, old_rank, new_rank) ELSE data

---------------------------------------------------------------------------
(* Hash encoding *)

\* encode_hash(hash): (idx << W) | rank
encode_hash(hash) ==
    LET idx  == Val(hash \cap Mask(32 - W - 1))
        rank == trailing_zeros(Shr(Not64(hash), P)) + 1
    IN Val(Shl32(Bits(idx), W) \cup Bits(rank))

\* decode_hash(h): (idx, rank)
decode_hash(h) ==
    LET rank == h % Pow2(W)
        idx  == (h \div Pow2(W)) % Pow2(P)
    IN <<idx, rank>>

---------------------------------------------------------------------------
(* hashbrown::HashSet<u32>: the items and the number of buckets of the     *)
(* raw table.  The sizes are those of a table of 4-byte entries with       *)
(* 16-byte control groups, which the sizes expected by the tests (184,     *)
(* 344, 2584 with the 8-byte state word) pin down.                         *)

\* hashbrown's capacity_to_buckets
capacity_to_buckets(cap) ==
    IF cap < 4 THEN 4
    ELSE IF cap < 8 THEN 8
    ELSE next_power_of_two((cap * 8) \div 7)

\* HashSet::capacity(): bucket_mask_to_capacity
set_capacity(set) ==
    IF set.buckets < 8 THEN set.buckets - 1 ELSE (set.buckets \div 8) * 7

\* set.raw_table().allocation_info().1.size()
allocation_size(set) == 16 * div_ceil(4 * set.buckets, 16) + set.buckets + 16

\* HashSet::with_capacity(cap)
set_with_capacity(cap) == [items |-> {}, buckets |-> capacity_to_buckets(cap)]

\* HashSet::insert(h): the table is resized when a new item finds no room
set_insert(set, h) ==
    IF h \in set.items THEN set
    ELSE IF Cardinality(set.items) < set_capacity(set)
         THEN [set EXCEPT !.items = @ \cup {h}]
         ELSE [items   |-> set.items \cup {h},
               buckets |-> capacity_to_buckets(set_capacity(set) + 1)]

RECURSIVE set_insert_all(_, _)
\* for h in seq { set.insert(*h) }: the first half of seq, then the rest
set_insert_all(set, seq) ==
    IF Len(seq) = 0 THEN set
    ELSE IF Len(seq) = 1 THEN set_insert(set, seq[1])
    ELSE LET mid  == Len(seq) \div 2
             half == set_insert_all(set, SubSeq(seq, 1, mid))
         IN IF half.buckets > 0 \* always: evaluates half before going on
            THEN set_insert_all(half, SubSeq(seq, mid + 1, Len(seq)))
            ELSE half

\* The order in which a HashSet yields its items is not fixed by the
\* program; two orders stand for it.
Orders == {"up", "down"}

\* set.iter(): the items in increasing ("up") or decreasing order
set_iter(S, ord) ==
    LET place(h) == Cardinality({g \in S : IF ord = "up" THEN g <= h ELSE g >= h})
        placed   == {<<place(h), h>> : h \in S}
    IN [i \in 1..Cardinality(S) |-> (CHOOSE p \in placed : p[1] = i)[2]]

---------------------------------------------------------------------------
(* The estimator: the state word `data` and the buffer it points to.       *)
(*   rep      the two tag bits                                             *)
(*   h1, h2   the two 31-bit fields of a Small word                        *)
(*   len      bits 56..63 of a Slice word                                  *)
(*   buf      the heap buffer: the u32 array of a Slice, the table of a    *)
(*            HashSet, the u32 array of a HyperLogLog (indexed from 0)     *)

\* new(): data = 0
new == [rep |-> Small, h1 |-> 0, h2 |-> 0, len |-> 0, buf |-> << >>]

representation(e) == e.rep

small_h1(e) == e.h1

small_h2(e) == e.h2

slice_len(e) == e.len

\* as_slice / as_slice_mut: the capacity is derived from the length
as_slice(e) == SubSeq(e.buf, 1, next_power_of_two(slice_len(e)))

as_hashset(e) == e.buf

as_hll_slice(e) == e.buf

\* set_slice_data(data, len)
set_slice_data(data, len) ==
    [rep |-> Slice, h1 |-> 0, h2 |-> 0, len |-> len, buf |-> data]

\* set_hll_data(data)
set_hll_data(data) ==
    [rep |-> HyperLogLog, h1 |-> 0, h2 |-> 0, len |-> 0, buf |-> data]

\* self.data = (ptr as usize) | (HashSet as usize)
set_hashset_data(set) ==
    [rep |-> HashSet, h1 |-> 0, h2 |-> 0, len |-> 0, buf |-> set]

\* a faulty contains_fixed_vectorized: the first lane is not compared
contains_fixed_vectorized_skips_lane(chunk, v) ==
    \E i \in 2..Len(chunk) : chunk[i] = v

\* contains_fixed_vectorized::<N>(a, v)
contains_fixed_vectorized(chunk, v) == \E i \in 1..Len(chunk) : chunk[i] = v

\* contains_vectorized::<N>(a, v): chunks_exact(N) leaves a remainder out
contains_vectorized(N, arr, v) ==
    \E c \in 0..((Len(arr) \div N) - 1) :
        contains_fixed_vectorized(SubSeq(arr, c * N + 1, c * N + N), v)

\* a faulty insert_into_small: the upgrade to a slice keeps the new hash only
insert_into_small_forgets(e, h) ==
    LET h1 == small_h1(e)
        h2 == small_h2(e)
    IN IF h1 = 0 THEN [e EXCEPT !.h1 = h]
       ELSE IF h1 = h THEN e
       ELSE IF h2 = 0 THEN [e EXCEPT !.h2 = h]
       ELSE IF h2 = h THEN e
       ELSE set_slice_data(<<h, 0, 0, 0>>, 1)

\* a faulty insert_into_small: the upgrade goes to a hash set at once
insert_into_small_to_set(e, h) ==
    LET h1 == small_h1(e)
        h2 == small_h2(e)
    IN IF h1 = 0 THEN [e EXCEPT !.h1 = h]
       ELSE IF h1 = h THEN e
       ELSE IF h2 = 0 THEN [e EXCEPT !.h2 = h]
       ELSE IF h2 = h THEN e
       ELSE set_hashset_data(
                set_insert_all(set_with_capacity(MAX_SLICE_CAPACITY + 1), <<h1, h2, h>>))

\* a faulty insert_into_small: the first slot is not compared with h
insert_into_small_repeats(e, h) ==
    LET h1 == small_h1(e)
        h2 == small_h2(e)
    IN IF h1 = 0 THEN [e EXCEPT !.h1 = h]
       ELSE IF h2 = 0 THEN [e EXCEPT !.h2 = h]
       ELSE IF h2 = h THEN e
       ELSE set_slice_data(<<h1, h2, h, 0>>, 3)

\* insert_into_small(h)
insert_into_small(e, h) ==
    LET h1 == small_h1(e)
        h2 == small_h2(e)
    IN IF h1 = 0 THEN [e EXCEPT !.h1 = h]
       ELSE IF h1 = h THEN e
       ELSE IF h2 = 0 THEN [e EXCEPT !.h2 = h]
       ELSE IF h2 = h THEN e
       ELSE set_slice_data(<<h1, h2, h, 0>>, 3)

\* a faulty insert_into_slice: the slice stops growing at 8 slots
insert_into_slice_cap8(e, h) ==
    LET len   == slice_len(e)
        data  == as_slice(e)
        cap   == Len(data)
        found == IF cap = 4 THEN contains_vectorized(4, data, h)
                 ELSE LET rlen == 8 * div_ceil(len, 8)
                      IN contains_vectorized(8, SubSeq(data, 1, rlen), h)
    IN IF found THEN e
       ELSE IF len < cap
            THEN [e EXCEPT !.buf = [@ EXCEPT ![len + 1] = h], !.len = len + 1]
       ELSE IF cap < 8
            THEN set_slice_data([i \in 1..(cap * 2) |->
                                    IF i <= len THEN data[i]
                                    ELSE IF i = len + 1 THEN h ELSE 0],
                                len + 1)
       ELSE set_hashset_data(
                set_insert(set_insert_all(set_with_capacity(cap + 1), data), h))

\* a faulty insert_into_slice: the scanned length is rounded down
insert_into_slice_scans_short(e, h) ==
    LET len   == slice_len(e)
        data  == as_slice(e)
        cap   == Len(data)
        found == IF cap = 4 THEN contains_vectorized(4, data, h)
                 ELSE LET rlen == 8 * (len \div 8)
                      IN contains_vectorized(8, SubSeq(data, 1, rlen), h)
    IN IF found THEN e
       ELSE IF len < cap
            THEN [e EXCEPT !.buf = [@ EXCEPT ![len + 1] = h], !.len = len + 1]
       ELSE IF cap < MAX_SLICE_CAPACITY
            THEN set_slice_data([i \in 1..(cap * 2) |->
                                    IF i <= len THEN data[i]
                                    ELSE IF i = len + 1 THEN h ELSE 0],
                                len + 1)
       ELSE set_hashset_data(
                set_insert(set_insert_all(set_with_capacity(cap + 1), data), h))

\* a faulty insert_into_slice: the slice grows by four slots
insert_into_slice_grows_by_4(e, h) ==
    LET len   == slice_len(e)
        data  == as_slice(e)
        cap   == Len(data)
        found == IF cap = 4 THEN contains_vectorized(4, data, h)
                 ELSE LET rlen == 8 * div_ceil(len, 8)
                      IN contains_vectorized(8, SubSeq(data, 1, rlen), h)
    IN IF found THEN e
       ELSE IF len < cap
            THEN [e EXCEPT !.buf = [@ EXCEPT ![len + 1] = h], !.len = len + 1]
       ELSE IF cap < MAX_SLICE_CAPACITY
            THEN set_slice_data([i \in 1..(cap + 4) |->
                                    IF i <= len THEN data[i]
                                    ELSE IF i = len + 1 THEN h ELSE 0],
                                len + 1)
       ELSE set_hashset_data(
                set_insert(set_insert_all(set_with_capacity(cap + 1), data), h))

\* insert_into_slice(h)
insert_into_slice(e, h) ==
    LET len   == slice_len(e)
        data  == as_slice(e)
        cap   == Len(data)
        found == IF cap = 4 THEN contains_vectorized(4, data, h)
                 ELSE LET rlen == 8 * div_ceil(len, 8)
                      IN contains_vectorized(8, SubSeq(data, 1, rlen), h)
    IN IF found THEN e
       ELSE IF len < cap
            THEN [e EXCEPT !.buf = [@ EXCEPT ![len + 1] = h], !.len = len + 1]
       ELSE IF cap < MAX_SLICE_CAPACITY
            THEN set_slice_data([i \in 1..(cap * 2) |->
                                    IF i <= len THEN data[i]
                                    ELSE IF i = len + 1 THEN h ELSE 0],
                                len + 1)
       ELSE set_hashset_data(
                set_insert(set_insert_all(set_with_capacity(cap + 1), data), h))

RECURSIVE insert_encoded_all(_, _)
\* for &h in codes { insert_into_hll(&mut data, decode_hash(h)) }: the first
\* half of codes, then the rest
insert_encoded_all(data, codes) ==
    IF Len(codes) = 0 THEN data
    ELSE IF Len(codes) = 1
         THEN LET d == decode_hash(codes[1]) IN insert_into_hll(data, d[1], d[2])
    ELSE LET mid  == Len(codes) \div 2
             half == insert_encoded_all(data, SubSeq(codes, 1, mid))
         IN IF half[0] >= 0 \* always: evaluates half before going on
            THEN insert_encoded_all(half, SubSeq(codes, mid + 1, Len(codes)))
            ELSE half

\* vec![0; HLL_SLICE_LEN] with data[0] = M and data[1] = (M as f32).to_bits()
new_hll_data ==
    [i \in 0..(HLL_SLICE_LEN - 1) |->
        IF i = 0 THEN M ELSE IF i = 1 THEN F32OfPow2(P) ELSE {}]

\* insert_into_set(h); ord is the order set.iter() yields the items in
insert_into_set(e, h, ord) ==
    LET set == as_hashset(e)
    IN IF /\ set_capacity(set) = Cardinality(set.items)
          /\ 2 * allocation_size(set) > HLL_SLICE_LEN * 4
       THEN \* migrate, then self.insert_encoded_hash(h) on the HyperLogLog
            LET data == insert_encoded_all(new_hll_data, set_iter(set.items, ord))
                d    == decode_hash(h)
            IN set_hll_data(insert_into_hll(data, d[1], d[2]))
       ELSE [e EXCEPT !.buf = set_insert(set, h)]

\* insert_encoded_hash(h)
insert_encoded_hash(e, h, ord) ==
    IF representation(e) = Small THEN insert_into_small(e, h)
    ELSE IF representation(e) = Slice THEN insert_into_slice(e, h)
    ELSE IF representation(e) = HashSet THEN insert_into_set(e, h, ord)
    ELSE LET d == decode_hash(h)
         IN [e EXCEPT !.buf = insert_into_hll(as_hll_slice(e), d[1], d[2])]

\* insert_hash(hash)
insert_hash(e, hash, ord) ==
    IF representation(e) = HyperLogLog
    THEN LET idx  == Val(hash \cap Mask(P))
             rank == trailing_zeros(Shr(Not64(hash), P)) + 1
         IN [e EXCEPT !.buf = insert_into_hll(as_hll_slice(e), idx, rank)]
    ELSE insert_encoded_hash(e, encode_hash(hash), ord)

---------------------------------------------------------------------------
(* estimate *)

\* a faulty estimate_small: the second slot is not counted
estimate_small_h1_only(e) == IF small_h1(e) = 0 THEN 0 ELSE 1

\* estimate_small()
estimate_small(e) ==
    IF small_h1(e) = 0 /\ small_h2(e) = 0 THEN 0
    ELSE IF small_h2(e) = 0 THEN 1
    ELSE 2

\* alpha(m), times 10^4
alpha(m) ==
    IF m = 16 THEN 6730
    ELSE IF m = 32 THEN 6970
    ELSE IF m = 64 THEN 7090
    ELSE 7213 - (7782827 \div (1000 * m + 1079))

\* crate::beta::beta_horner(z, P), times 2^10: the LogLog-Beta polynomial in z
\* and ln(z + 1), which has no constant term, so that it is 0 at z = 0 for
\* every P.  No other value of it is used.
beta_horner(z, p) == CASE z = 0 -> 0

\* an f32 as f64, times 2^10 (exact while the value is a multiple of 2^-10)
F32Times1024(f) ==
    IF f.e + 10 >= 0 THEN f.m * Pow2(f.e + 10) ELSE f.m \div Pow2(-(f.e + 10))

\* estimate_hll(): (alpha(M) * (M * (M - zeros)) / (sum + beta) + 0.5) as usize,
\* in fixed point; a negative or NaN quotient casts to 0
estimate_hll(e) ==
    LET data  == as_hll_slice(e)
        zeros == data[0]
        num   == alpha(M) * (M * (M - zeros)) * 1024
        den   == 10000 * (F32Times1024(data[1]) + beta_horner(zeros, P))
    IN IF den <= 0 THEN 0
       ELSE (num \div den) + (IF 2 * (num % den) >= den THEN 1 ELSE 0)

\* a faulty estimate: a slice is counted by its capacity
estimate_by_capacity(e) ==
    IF representation(e) = Small THEN estimate_small(e)
    ELSE IF representation(e) = Slice THEN Len(as_slice(e))
    ELSE IF representation(e) = HashSet THEN Cardinality(as_hashset(e).items)
    ELSE estimate_hll(e)

\* estimate()
estimate(e) ==
    IF representation(e) = Small THEN estimate_small(e)
    ELSE IF representation(e) = Slice THEN slice_len(e)
    ELSE IF representation(e) = HashSet THEN Cardinality(as_hashset(e).items)
    ELSE estimate_hll(e)

---------------------------------------------------------------------------
(* merge, clone, eq *)

RECURSIVE insert_all(_, _, _)
\* for &h in codes { self.insert_encoded_hash(h) }: the first half of codes,
\* then the rest
insert_all(e, codes, ord) ==
    IF Len(codes) = 0 THEN e
    ELSE IF Len(codes) = 1 THEN insert_encoded_hash(e, codes[1], ord)
    ELSE LET mid  == Len(codes) \div 2
             half == insert_all(e, SubSeq(codes, 1, mid), ord)
         IN IF half.rep >= 0 \* always: evaluates half before going on
            THEN insert_all(half, SubSeq(codes, mid + 1, Len(codes)), ord)
            ELSE half

RECURSIVE merge_registers(_, _, _, _)
\* for idx in from..to { if rhs_rank > lhs_rank { set_register(lhs, idx, ..) } }
merge_registers(lhs_data, rhs_data, from, to) ==
    IF from >= to THEN lhs_data
    ELSE IF from + 1 = to
         THEN LET lhs_rank == get_register(lhs_data, from)
                  rhs_rank == get_register(rhs_data, from)
              IN IF rhs_rank > lhs_rank
                 THEN set_register(lhs_data, from, lhs_rank, rhs_rank)
                 ELSE lhs_data
    ELSE LET mid  == (from + to) \div 2
             half == merge_registers(lhs_data, rhs_data, from, mid)
         IN IF half[0] >= 0 \* always: evaluates half before going on
            THEN merge_registers(half, rhs_data, mid, to)
            ELSE half

\* a faulty reading of a Small word: the second slot is left out
small_codes_h1_only(e) == IF small_h1(e) # 0 THEN <<small_h1(e)>> ELSE << >>

\* the non-zero slots of a Small word, in order
small_codes(e) ==
    (IF small_h1(e) # 0 THEN <<small_h1(e)>> ELSE << >>)
    \o (IF small_h2(e) # 0 THEN <<small_h2(e)>> ELSE << >>)

\* a faulty merge: a HashSet self leaves a HyperLogLog rhs out
merge_skips_hll(e, rhs, ord) ==
    IF representation(rhs) = Small THEN insert_all(e, small_codes(rhs), ord)
    ELSE IF representation(rhs) = Slice
         THEN insert_all(e, SubSeq(as_slice(rhs), 1, slice_len(rhs)), ord)
    ELSE IF representation(rhs) = HashSet
         THEN insert_all(e, set_iter(as_hashset(rhs).items, ord), ord)
    ELSE IF representation(e) = Small
         THEN set_hll_data(insert_encoded_all(as_hll_slice(rhs), small_codes(e)))
    ELSE IF representation(e) = Slice
         THEN set_hll_data(insert_encoded_all(as_hll_slice(rhs),
                                              SubSeq(as_slice(e), 1, slice_len(e))))
    ELSE IF representation(e) = HashSet
         THEN e
    ELSE [e EXCEPT !.buf = merge_registers(as_hll_slice(e), as_hll_slice(rhs), 0, M)]

\* merge(rhs); ord is the order in which a HashSet is iterated
merge(e, rhs, ord) ==
    IF representation(rhs) = Small THEN insert_all(e, small_codes(rhs), ord)
    ELSE IF representation(rhs) = Slice
         THEN insert_all(e, SubSeq(as_slice(rhs), 1, slice_len(rhs)), ord)
    ELSE IF representation(rhs) = HashSet
         THEN insert_all(e, set_iter(as_hashset(rhs).items, ord), ord)
    ELSE IF representation(e) = Small
         THEN set_hll_data(insert_encoded_all(as_hll_slice(rhs), small_codes(e)))
    ELSE IF representation(e) = Slice
         THEN set_hll_data(insert_encoded_all(as_hll_slice(rhs),
                                              SubSeq(as_slice(e), 1, slice_len(e))))
    ELSE IF representation(e) = HashSet
         THEN set_hll_data(insert_encoded_all(as_hll_slice(rhs),
                                              set_iter(as_hashset(e).items, ord)))
    ELSE [e EXCEPT !.buf = merge_registers(as_hll_slice(e), as_hll_slice(rhs), 0, M)]

\* Clone::clone
clone(e, ord) == merge(new, e, ord)

\* the encoded hashes an estimator that is not a HyperLogLog holds: what
\* merge reads from such a right-hand side
codes(e) ==
    IF representation(e) = Small THEN {small_codes(e)[i] : i \in 1..Len(small_codes(e))}
    ELSE IF representation(e) = Slice THEN {as_slice(e)[i] : i \in 1..slice_len(e)}
    ELSE as_hashset(e).items

\* a faulty eq: the data words are compared, whatever the representation
eq_by_word(e, rhs) ==
    /\ representation(e) = representation(rhs)
    /\ representation(e) = Small
    /\ e.h1 = rhs.h1
    /\ e.h2 = rhs.h2

\* PartialEq::eq
eq(e, rhs) ==
    /\ representation(e) = representation(rhs)
    /\ IF representation(e) = Small THEN e.h1 = rhs.h1 /\ e.h2 = rhs.h2
       ELSE IF representation(e) = Slice THEN as_slice(e) = as_slice(rhs)
       ELSE IF representation(e) = HashSet
            THEN as_hashset(e).items = as_hashset(rhs).items
       ELSE as_hll_slice(e) = as_hll_slice(rhs)

---------------------------------------------------------------------------
(* The allocator.  Buffers are numbered as they are allocated; a Box of a  *)
(* HashSet counts as one buffer with the table it owns.                    *)
(*   next     the number the next allocation gets                          *)
(*   live     the buffers allocated and not freed                          *)
(*   freed    the buffers freed                                            *)
(*   own      the buffer the state word of a and of b points to (0: none)  *)
(*   faults   the buffers freed while not live                             *)
(*   dropped  the estimators that were dropped                             *)

EmptyHeap ==
    [next |-> 1, live |-> {}, freed |-> {}, own |-> [a |-> 0, b |-> 0],
     faults |-> {}, dropped |-> {}]

\* vec![..] / Box::new(..) followed by set_slice_data, set_hll_data or the
\* store of the HashSet pointer: the state word of who points to a new buffer
heap_alloc(hp, who) ==
    [hp EXCEPT !.live = @ \cup {hp.next}, !.own[who] = hp.next, !.next = @ + 1]

\* drop(Box::from_raw(ptr))
heap_free(hp, ptr) ==
    IF ptr \in hp.live
    THEN [hp EXCEPT !.live = @ \ {ptr}, !.freed = @ \cup {ptr}]
    ELSE [hp EXCEPT !.faults = @ \cup {ptr}]

\* what one insert_encoded_hash that took the estimator of who from pre to
\* post allocated and freed
insert_heap(hp, who, pre, post) ==
    IF representation(pre) = Small /\ representation(post) = Slice
    THEN \* insert_into_small: vec![h1, h2, h, 0]
         heap_alloc(hp, who)
    ELSE IF /\ representation(pre) = Slice
            /\ representation(post) = Slice
            /\ Len(post.buf) # Len(pre.buf)
    THEN \* insert_into_slice: vec![0; cap * 2], drop(Box::from_raw(data))
         heap_free(heap_alloc(hp, who), hp.own[who])
    ELSE IF representation(pre) = Slice /\ representation(post) = HashSet
    THEN \* insert_into_slice: Box::new(HashSet::with_capacity(cap + 1)); the
         \* slice is not dropped
         heap_alloc(hp, who)
    ELSE IF representation(pre) = HashSet /\ representation(post) = HyperLogLog
    THEN \* insert_into_set: vec![0; HLL_SLICE_LEN], drop(Box::from_raw(set))
         heap_free(heap_alloc(hp, who), hp.own[who])
    ELSE hp

RECURSIVE insert_all_heap(_, _, _, _)
\* for &h in hs { self.insert_encoded_hash(h) } with the allocator: st is
\* the estimator e of who and the heap hp
insert_all_heap(st, who, hs, ord) ==
    IF Len(hs) = 0 THEN st
    ELSE IF Len(hs) = 1
         THEN LET post == insert_encoded_hash(st.e, hs[1], ord)
              IN [e |-> post, hp |-> insert_heap(st.hp, who, st.e, post)]
    ELSE LET mid  == Len(hs) \div 2
             half == insert_all_heap(st, who, SubSeq(hs, 1, mid), ord)
         IN IF half.hp.next >= 0 /\ half.e.rep >= 0 \* always: evaluates half
            THEN insert_all_heap(half, who, SubSeq(hs, mid + 1, Len(hs)), ord)
            ELSE half

\* a faulty merge: a Small self takes over the buffer of a HyperLogLog rhs
merge_heap_shares(hp, who, e, rhs, whose, ord) ==
    IF representation(rhs) = HyperLogLog /\ representation(e) = Small
    THEN [hp EXCEPT !.own[who] = hp.own[whose]]
    ELSE IF representation(rhs) = HyperLogLog /\ representation(e) # HyperLogLog
    THEN heap_free(heap_alloc(hp, who), hp.own[who])
    ELSE IF representation(rhs) = HyperLogLog
    THEN hp
    ELSE insert_all_heap([e |-> e, hp |-> hp], who, 
                         IF representation(rhs) = Small THEN small_codes(rhs)
                         ELSE IF representation(rhs) = Slice
                              THEN SubSeq(as_slice(rhs), 1, slice_len(rhs))
                         ELSE set_iter(as_hashset(rhs).items, ord), ord).hp

\* what self.merge(&rhs) allocates and frees: self is the estimator e of
\* who, rhs the estimator of whose
merge_heap(hp, who, e, rhs, whose, ord) ==
    IF representation(rhs) = Small
    THEN insert_all_heap([e |-> e, hp |-> hp], who, small_codes(rhs), ord).hp
    ELSE IF representation(rhs) = Slice
    THEN insert_all_heap([e |-> e, hp |-> hp], who,
                         SubSeq(as_slice(rhs), 1, slice_len(rhs)), ord).hp
    ELSE IF representation(rhs) = HashSet
    THEN insert_all_heap([e |-> e, hp |-> hp], who,
                         set_iter(as_hashset(rhs).items, ord), ord).hp
    ELSE IF representation(e) = Small
    THEN \* rhs.as_hll_slice().to_vec()
         heap_alloc(hp, who)
    ELSE IF representation(e) = Slice \/ representation(e) = HashSet
    THEN \* rhs.as_hll_slice().to_vec(), drop(Box::from_raw(..)) of self's buffer
         heap_free(heap_alloc(hp, who), hp.own[who])
    ELSE hp

\* Drop::drop of the estimator e of who
drop_heap(hp, who, e) ==
    LET freed == IF representation(e) = Small THEN hp
                 ELSE heap_free(hp, hp.own[who])
    IN [freed EXCEPT !.dropped = @ \cup {who}]

---------------------------------------------------------------------------
(* The hashes fed to the estimators.  A hash is built from the register    *)
(* index in its low P bits, the run of one-bits above them that sets its   *)
(* rank, and a tag above the run that tells hashes of one register apart.  *)

\* the (P, W) pairs the model is run for
Params == {<<4, 6>>, <<4, 4>>}

\* how many hashes are fed to a
MaxA == 31

\* how many hashes are fed to b
MaxB == 18

\* how many merges a takes part in as the left-hand side
MaxMerges == 1

MkHash(reg, rank, tag) ==
    Bits(reg) \cup {P + i : i \in 0..(rank - 2)} \cup {P + 8 + j : j \in Bits(tag)}

\* the rank of the hash with this register and tag: 1 for three registers
\* of four, 2 or 3 for the fourth
RankOf(reg, tag) == IF reg % 4 = 3 THEN 2 + (tag % 2) ELSE 1

\* a's hashes: the registers upwards, round after round; the third hash
\* differs from the first in bit 40 only, so that both encode alike
StreamA(k) ==
    IF k = 3 THEN MkHash(0, RankOf(0, 0), 0) \cup {40}
    ELSE LET j   == IF k < 3 THEN k - 1 ELSE k - 2
             reg == j % M
             rnd == j \div M
         IN MkHash(reg, RankOf(reg, rnd), rnd)

\* b's hashes: register 0, then the registers downwards; its first round
\* are hashes of a's first round, its later rounds are its own
StreamB(k) ==
    LET j   == k - 1
        reg == (M - (j % M)) % M
        rnd == j \div M
    IN MkHash(reg, RankOf(reg, 2 * rnd), 2 * rnd)

---------------------------------------------------------------------------
(* The state machine *)

Init ==
    /\ \E pw \in Params : P = pw[1] /\ W = pw[2]
    /\ VALID_PARAMS(P, W)
    /\ a = new
    /\ b = new
    /\ x = new
    /\ y = new
    /\ na = 0
    /\ nb = 0
    /\ merges = 0
    /\ seen_a = {}
    /\ seen_b = {}
    /\ heap = EmptyHeap
    /\ op = [name |-> "new", pre |-> new, code |-> 0, again |-> FALSE]

\* e.insert_hash(hash) with the next hash of a's stream, or again with its
\* first or its latest one
InsertA ==
    \E k \in {1, na, na + 1}, ord \in Orders :
        /\ k >= 1
        /\ k <= MaxA
        /\ k = na + 1 => merges = 0
        /\ a' = insert_hash(a, StreamA(k), ord)
        /\ na' = IF k = na + 1 THEN k ELSE na
        /\ seen_a' = seen_a \cup {encode_hash(StreamA(k))}
        /\ op' = [name |-> "insert", pre |-> a, code |-> encode_hash(StreamA(k)),
                  again |-> (k <= na)]
        /\ x' = new
        /\ y' = new
        /\ UNCHANGED <<heap, P, W, b, nb, merges, seen_b>>

\* rhs.insert_hash(hash) with the next hash of b's stream, while a is empty
InsertB ==
    \E ord \in Orders :
        /\ nb < MaxB
        /\ na = 0
        /\ merges = 0
        /\ b' = insert_hash(b, StreamB(nb + 1), ord)
        /\ nb' = nb + 1
        /\ seen_b' = seen_b \cup {encode_hash(StreamB(nb + 1))}
        /\ op' = [name |-> "insert_rhs", pre |-> b, code |-> encode_hash(StreamB(nb + 1)), again |-> FALSE]
        /\ x' = new
        /\ y' = new
        /\ UNCHANGED <<heap, P, W, a, na, merges, seen_a>>

\* lhs.merge(&rhs)
MergeAB ==
    \E ord \in Orders :
        /\ merges < MaxMerges
        /\ a' = merge(a, b, ord)
        /\ merges' = merges + 1
        /\ seen_a' = seen_a \cup seen_b
        /\ op' = [name |-> "merge", pre |-> a, code |-> 0, again |-> FALSE]
        /\ x' = new
        /\ y' = new
        /\ UNCHANGED <<heap, P, W, b, na, nb, seen_b>>

\* a.merge(&a.clone())
MergeClone ==
    \E ord \in Orders :
        /\ merges < MaxMerges
        /\ a' = merge(a, clone(a, ord), ord)
        /\ merges' = merges + 1
        /\ op' = [name |-> "merge_clone", pre |-> a, code |-> 0, again |-> FALSE]
        /\ x' = new
        /\ y' = new
        /\ UNCHANGED <<heap, P, W, b, na, nb, seen_a, seen_b>>

\* a.merge(&new()), and x = new() merged with a
MergeNew ==
    \E ord \in Orders :
        /\ merges < MaxMerges
        /\ a' = merge(a, new, ord)
        /\ merges' = merges + 1
        /\ x' = merge(new, a, ord)
        /\ op' = [name |-> "merge_new", pre |-> a, code |-> 0, again |-> FALSE]
        /\ y' = new
        /\ UNCHANGED <<heap, P, W, b, na, nb, seen_a, seen_b>>

\* x = a.clone()
Clone ==
    \E ord \in Orders :
        /\ x' = clone(a, ord)
        /\ y' = new
        /\ op' = [name |-> "clone", pre |-> a, code |-> 0, again |-> FALSE]
        /\ UNCHANGED <<heap, P, W, a, b, na, nb, merges, seen_a, seen_b>>

\* x = a.clone() merged with b, y = b.clone() merged with a
MergeBothWays ==
    \E ordx \in Orders, ordy \in Orders :
        /\ x' = merge(clone(a, ordx), b, ordx)
        /\ y' = merge(clone(b, ordy), a, ordy)
        /\ op' = [name |-> "merge_both", pre |-> a, code |-> 0, again |-> FALSE]
        /\ UNCHANGED <<heap, P, W, a, b, na, nb, merges, seen_a, seen_b>>

Next ==
    \/ InsertA
    \/ InsertB
    \/ MergeAB
    \/ MergeClone
    \/ MergeNew
    \/ Clone
    \/ MergeBothWays

Spec == Init /\ [][Next]_vars

\* a faulty size_of: the slice is measured by its length, not its capacity
size_of_by_len(e) ==
    8 + (CASE representation(e) = Small -> 0
           [] representation(e) = Slice -> 4 * slice_len(e)
           [] representation(e) = HashSet -> allocation_size(as_hashset(e))
           [] representation(e) = HyperLogLog -> 4 * HLL_SLICE_LEN)

\* size_of(): size_of::<Self>() is the 8 bytes of the state word; as_slice
\* and as_hll_slice have the lengths next_power_of_two(len) and HLL_SLICE_LEN
size_of(e) ==
    8 + (CASE representation(e) = Small -> 0
           [] representation(e) = Slice -> 4 * Len(as_slice(e))
           [] representation(e) = HashSet -> allocation_size(as_hashset(e))
           [] representation(e) = HyperLogLog -> 4 * HLL_SLICE_LEN)

---------------------------------------------------------------------------
(* The estimators of the tests: P = 12, W = 6, P = 10, W = 5 and P = 18,   *)
(* W = 6, fed up to 450 hashes                                             *)

\* the (P, W) pairs of test_estimator_p12_w6, _p10_w5 and _p18_w6
BigParams == {<<12, 6>>, <<10, 5>>, <<18, 6>>}

\* how many hashes are fed to a
MaxBig == 450

BigInit ==
    /\ \E pw \in BigParams : P = pw[1] /\ W = pw[2]
    /\ VALID_PARAMS(P, W)
    /\ a = new
    /\ b = new
    /\ x = new
    /\ y = new
    /\ na = 0
    /\ nb = 0
    /\ merges = 0
    /\ seen_a = {}
    /\ seen_b = {}
    /\ heap = EmptyHeap
    /\ op = [name |-> "new", pre |-> new, code |-> 0, again |-> FALSE]

\* e.insert_hash(hash) with the next hash of a's stream, or again with its
\* first or its latest one
InsertBig ==
    \E k \in {1, na, na + 1}, ord \in Orders :
        /\ k >= 1
        /\ k <= MaxBig
        /\ representation(a) # HyperLogLog
        /\ a' = insert_hash(a, StreamA(k), ord)
        /\ na' = IF k = na + 1 THEN k ELSE na
        /\ seen_a' = seen_a \cup {encode_hash(StreamA(k))}
        /\ op' = [name |-> "insert", pre |-> a, code |-> encode_hash(StreamA(k)),
                  again |-> (k <= na)]
        /\ UNCHANGED <<heap, P, W, b, x, y, nb, merges, seen_b>>

\* e.size_of(): the estimator is borrowed immutably
SizeOf ==
    /\ op' = [name |-> "size_of", pre |-> a, code |-> size_of(a), again |-> FALSE]
    /\ UNCHANGED <<heap, P, W, a, b, x, y, na, nb, merges, seen_a, seen_b>>

BigNext == InsertBig \/ SizeOf

SpecBig == BigInit /\ [][BigNext]_vars

---------------------------------------------------------------------------
(* The pure functions: the hash codec and the register addressing, over    *)
(* every valid pair of parameters                                          *)

\* every (P, W) the compile-time assertion VALID_PARAMS accepts
CodecParams == {pw \in (0..19) \X (0..7) : VALID_PARAMS(pw[1], pw[2])}

\* the two words get_register and set_register take from the buffer:
\* data.get_unchecked(u32_idx..u32_idx + 2)
register_words(idx) ==
    LET bit_idx == idx * W
        u32_idx == (bit_idx \div 32) + 2
    IN <<u32_idx, u32_idx + 1>>

\* the register indexes tried: the first ones, the middle one, the last ones
CodecIdx == {0, 1, M \div 2} \cup ((M - 8)..(M - 1))

\* the ranks tried: the low ones, those around 2^4, 2^5 and 2^6, and the
\* two longest runs of ones a hash has room for above its P index bits
CodecRanks == {r \in {1, 2, 15, 16, 17, 31, 32, 33} : r <= 64 - P}
              \cup {64 - P, 65 - P}

\* the hashes tried: index bits reg, then rank - 1 ones from bit P on
CodecHash(reg, rank) == Bits(reg) \cup {P + i : i \in 0..(rank - 2)}

CodecInit ==
    /\ \E pw \in CodecParams : P = pw[1] /\ W = pw[2]
    /\ a = new
    /\ b = new
    /\ x = new
    /\ y = new
    /\ na = 0
    /\ nb = 0
    /\ merges = 0
    /\ seen_a = {}
    /\ seen_b = {}
    /\ heap = EmptyHeap
    /\ op = [name |-> "new"]

\* get_register / set_register address the register idx
RegisterWords ==
    \E idx \in CodecIdx :
        /\ op' = [name |-> "register_words", idx |-> idx,
                  words |-> register_words(idx)]
        /\ UNCHANGED <<heap, P, W, a, b, x, y, na, nb, merges, seen_a, seen_b>>

\* encode_hash(hash), then decode_hash of its result
EncodeHash ==
    \E reg \in {0, 1, M - 1}, rank \in CodecRanks :
        /\ op' = [name |-> "encode_hash", hash |-> CodecHash(reg, rank),
                  code |-> encode_hash(CodecHash(reg, rank)),
                  decoded |-> decode_hash(encode_hash(CodecHash(reg, rank)))]
        /\ UNCHANGED <<heap, P, W, a, b, x, y, na, nb, merges, seen_a, seen_b>>

CodecNext == RegisterWords \/ EncodeHash

SpecCodec == CodecInit /\ [][CodecNext]_vars

---------------------------------------------------------------------------
(* The register codec on a buffer: set_register followed by get_register.  *)
(* The memory is the buffer and the word that follows it, which the        *)
(* unchecked two-word access reaches when it leaves the buffer.            *)

\* the largest P the register codec is run on: 2^6 registers go through
\* every position a W-bit field takes in its 32-bit words
MaxRegP == 6

RegParams == {pw \in CodecParams : pw[1] <= MaxRegP}

\* the ranks the registers hold beforehand, and the ranks written
RegRanks == {0, 1, 5, Pow2(W) - 1}

\* whether the second word of register idx lies past the buffer
out_of_buffer(idx) == register_words(idx)[2] >= HLL_SLICE_LEN

\* a new HyperLogLog buffer, followed by the word after it, which holds g
memory(g) == [i \in 0..HLL_SLICE_LEN |-> IF i = HLL_SLICE_LEN THEN g ELSE new_hll_data[i]]

RECURSIVE fill_registers(_, _, _, _)
\* insert_into_hll(data, idx, rank) for the registers from..to - 1 that lie
\* inside the buffer
fill_registers(data, rank, from, to) ==
    IF from >= to THEN data
    ELSE IF from + 1 = to
         THEN IF out_of_buffer(from) THEN data ELSE insert_into_hll(data, from, rank)
    ELSE LET mid  == (from + to) \div 2
             half == fill_registers(data, rank, from, mid)
         IN IF half[0] >= 0 \* always: evaluates half before going on
            THEN fill_registers(half, rank, mid, to)
            ELSE half

RegInit ==
    /\ \E pw \in RegParams : P = pw[1] /\ W = pw[2]
    /\ VALID_PARAMS(P, W)
    /\ a = new
    /\ b = new
    /\ x = new
    /\ y = new
    /\ na = 0
    /\ nb = 0
    /\ merges = 0
    /\ seen_a = {}
    /\ seen_b = {}
    /\ heap = EmptyHeap
    /\ op = [name |-> "new"]

\* insert_into_hll(data, idx, held) for every register inside a new buffer;
\* the word after the buffer holds g
FillRegisters ==
    \E held \in RegRanks \ {Pow2(W) - 1}, g \in {{}, 0..31} :
        /\ op.name = "new"
        /\ g # {} => \E idx \in 0..(M - 1) : out_of_buffer(idx)
        /\ op' = [name |-> "fill", after |-> fill_registers(memory(g), held, 0, M)]
        /\ UNCHANGED <<heap, P, W, a, b, x, y, na, nb, merges, seen_a, seen_b>>

\* set_register(data, idx, old_rank, rank) on the filled buffer.  An access
\* that leaves the buffer is undefined: it either stops the program (the
\* precondition of get_unchecked is asserted in a build with debug
\* assertions) or reaches the word after the buffer, which holds anything
SetRegister ==
    \E idx \in 0..(M - 1), rank \in RegRanks, stops \in BOOLEAN :
        /\ op.name = "fill"
        /\ stops => out_of_buffer(idx)
        /\ op' = [name |-> "set_register", idx |-> idx, rank |-> rank,
                  stops |-> stops, before |-> op.after,
                  after |-> IF stops THEN op.after
                            ELSE set_register(op.after, idx, get_register(op.after, idx), rank)]
        /\ UNCHANGED <<heap, P, W, a, b, x, y, na, nb, merges, seen_a, seen_b>>

RegNext == FillRegisters \/ SetRegister

SpecRegs == RegInit /\ [][RegNext]_vars

---------------------------------------------------------------------------
(* The HyperLogLog bookkeeping: hashes of high rank inserted into a        *)
(* HyperLogLog estimator                                                   *)

\* the ranks of the hashes inserted into the HyperLogLog: 2^4, one below
\* the precision of an f32 next to a sum of 4 or more, and the hash whose
\* bits from P upwards are all ones (64 - P ones: insert_hash gives it 65)
WideRanks == {16, 24, 65 - P}

\* the rank insert_hash computes from the hash: 1 + the number of ones from
\* bit P upwards, and 65 when every bit from P upwards is one
hash_rank(hash) == trailing_zeros(Shr(Not64(hash), P)) + 1

\* the harmonic sum is compared in units of 2^-ExactScale
ExactScale == 24

\* the number of registers whose stored rank is 0
zero_registers(data) == Cardinality({i \in 0..(M - 1) : get_register(data, i) = 0})

RECURSIVE harmonic_sum(_, _, _)
\* the sum of 2^(-stored rank) over the registers from..to, in units of
\* 2^-ExactScale
harmonic_sum(data, from, to) ==
    IF from = to THEN Pow2(ExactScale - get_register(data, from))
    ELSE LET mid == (from + to) \div 2
         IN harmonic_sum(data, from, mid) + harmonic_sum(data, mid + 1, to)

\* f32::from_bits(data[1]) is exactly n units of 2^-ExactScale
F32Exactly(f, n) ==
    IF f.m = 0 THEN n = 0
    ELSE IF f.e + ExactScale >= 0 THEN f.m * Pow2(f.e + ExactScale) = n
    ELSE f.m = n * Pow2(-(f.e + ExactScale))

\* let mut x = a.clone(); x.insert_hash(hash), once or twice, with a hash of
\* high rank
InsertWide ==
    \E reg \in {0, 3, M - 1}, rank \in WideRanks, twice \in BOOLEAN, ord \in Orders :
        /\ representation(a) = HyperLogLog
        /\ LET hash == MkHash(reg, rank, 0)
               once == insert_hash(clone(a, ord), hash, ord)
           IN /\ x' = IF twice THEN insert_hash(once, hash, ord) ELSE once
              /\ op' = [name |-> "insert_wide", pre |-> a,
                        code |-> encode_hash(hash), again |-> twice,
                        idx |-> Val(hash \cap Mask(P)), rank |-> hash_rank(hash)]
        /\ UNCHANGED <<heap, P, W, a, b, y, na, nb, merges, seen_a, seen_b>>

HllNext == InsertA \/ InsertWide

SpecHll == Init /\ [][HllNext]_vars

---------------------------------------------------------------------------
(* Ownership of the buffers: inserts, merge, clone and drop with the       *)
(* allocator                                                               *)

\* a.insert_hash(hash), as InsertA, before anything is dropped
HeapInsertA ==
    \E k \in {1, na, na + 1}, ord \in Orders :
        /\ k >= 1
        /\ k <= MaxA
        /\ k = na + 1 => merges = 0
        /\ heap.dropped = {}
        /\ LET post == insert_hash(a, StreamA(k), ord)
           IN /\ a' = post
              /\ heap' = insert_heap(heap, "a", a, post)
        /\ na' = IF k = na + 1 THEN k ELSE na
        /\ seen_a' = seen_a \cup {encode_hash(StreamA(k))}
        /\ op' = [name |-> "insert", pre |-> a, code |-> encode_hash(StreamA(k)),
                  again |-> (k <= na)]
        /\ UNCHANGED <<P, W, b, x, y, nb, merges, seen_b>>

\* b.insert_hash(hash), as InsertB, before anything is dropped
HeapInsertB ==
    \E ord \in Orders :
        /\ nb < MaxB
        /\ na = 0
        /\ merges = 0
        /\ heap.dropped = {}
        /\ LET post == insert_hash(b, StreamB(nb + 1), ord)
           IN /\ b' = post
              /\ heap' = insert_heap(heap, "b", b, post)
        /\ nb' = nb + 1
        /\ seen_b' = seen_b \cup {encode_hash(StreamB(nb + 1))}
        /\ op' = [name |-> "insert_rhs", pre |-> b,
                  code |-> encode_hash(StreamB(nb + 1)), again |-> FALSE]
        /\ UNCHANGED <<P, W, a, x, y, na, merges, seen_a>>

\* a.merge(&b) or b.merge(&a): self is the estimator of who
HeapMerge ==
    \E who \in {"a", "b"}, ord \in Orders :
        /\ merges < MaxMerges
        /\ heap.dropped = {}
        /\ LET whose == IF who = "a" THEN "b" ELSE "a"
               self  == IF who = "a" THEN a ELSE b
               rhs   == IF who = "a" THEN b ELSE a
           IN /\ a' = IF who = "a" THEN merge(self, rhs, ord) ELSE a
              /\ b' = IF who = "b" THEN merge(self, rhs, ord) ELSE b
              /\ heap' = merge_heap(heap, who, self, rhs, whose, ord)
              /\ op' = [name |-> "merge", pre |-> self, code |-> heap.own[whose],
                        again |-> FALSE, who |-> who, rhs |-> rhs]
        /\ merges' = merges + 1
        /\ seen_a' = IF who = "a" THEN seen_a \cup seen_b ELSE seen_a
        /\ seen_b' = IF who = "b" THEN seen_b \cup seen_a ELSE seen_b
        /\ UNCHANGED <<P, W, x, y, na, nb>>

\* let b = a.clone(), in place of a b filled by inserts: b = new() and
\* b.merge(&a)
HeapClone ==
    \E ord \in Orders :
        /\ nb = 0
        /\ merges = 0
        /\ heap.dropped = {}
        /\ heap.own["b"] = 0
        /\ b' = clone(a, ord)
        /\ heap' = merge_heap(heap, "b", new, a, "a", ord)
        /\ seen_b' = seen_a
        /\ op' = [name |-> "clone", pre |-> new, code |-> heap.own["a"],
                  again |-> FALSE, who |-> "b", rhs |-> a]
        /\ UNCHANGED <<P, W, a, x, y, na, nb, merges, seen_a>>

\* drop(a) or drop(b)
HeapDrop ==
    \E who \in {"a", "b"} \ heap.dropped :
        /\ heap' = drop_heap(heap, who, IF who = "a" THEN a ELSE b)
        /\ op' = [name |-> "drop", pre |-> IF who = "a" THEN a ELSE b,
                  code |-> heap.own[who], again |-> FALSE]
        /\ UNCHANGED <<P, W, a, b, x, y, na, nb, merges, seen_a, seen_b>>

HeapNext ==
    \/ HeapInsertA
    \/ HeapInsertB
    \/ HeapMerge
    \/ HeapClone
    \/ HeapDrop

SpecHeap == Init /\ [][HeapNext]_vars

---------------------------------------------------------------------------
(* Sparse against dense: an estimator with 2^5 registers, some of them     *)
(* never hit, fed a stream with one hash of rank 16, next to a HyperLogLog *)
(* buffer fed the same hashes directly                                     *)

DenseParams == {<<5, 4>>, <<5, 6>>}

\* the number of hashes of the stream
MaxDense == 31

\* a's stream with one hash replaced: the fifth has register 1, which the
\* second hash hit with rank 1, and rank 16
DenseStream(k) == IF k = 5 THEN MkHash(1, 16, 0) ELSE StreamA(k)

\* the hashes inserted into a HyperLogLog estimator cloned from a: rank 16
\* and rank 2 for a register no hash of the stream hits, rank 3 for one hit
ForkHashes == {MkHash(M - 1, 16, 0), MkHash(M - 1, 2, 0), MkHash(0, 3, 0)}

\* the first n_a hashes of a's stream, then the first n_b of b's, forwards
\* or backwards
hashes_of(n_a, n_b, back) ==
    LET n == n_a + n_b
        h(i) == IF i <= n_a THEN DenseStream(i) ELSE StreamB(i - n_a)
    IN [i \in 1..n |-> IF back THEN h(n + 1 - i) ELSE h(i)]

RECURSIVE dense_insert_all(_, _, _, _)
\* insert_hash on a HyperLogLog buffer for hs[from..to - 1]: each hash goes
\* into insert_into_hll with its index and its rank, unencoded
dense_insert_all(data, hs, from, to) ==
    IF from >= to THEN data
    ELSE IF from + 1 = to
         THEN insert_into_hll(data, Val(hs[from] \cap Mask(P)), hash_rank(hs[from]))
    ELSE LET mid  == (from + to) \div 2
             half == dense_insert_all(data, hs, from, mid)
         IN IF half[0] >= 0 \* always: evaluates half before going on
            THEN dense_insert_all(half, hs, mid, to)
            ELSE half

\* the buffer of a HyperLogLog that was fed the hashes hs from the start
dense_hll(hs) == dense_insert_all(new_hll_data, hs, 1, Len(hs) + 1)

\* the register array of a HyperLogLog buffer
registers(data) == [i \in 0..(M - 1) |-> get_register(data, i)]

DenseInit ==
    /\ \E pw \in DenseParams : P = pw[1] /\ W = pw[2]
    /\ VALID_PARAMS(P, W)
    /\ a = new
    /\ b = new
    /\ x = new
    /\ y = new
    /\ na = 0
    /\ nb = 0
    /\ merges = 0
    /\ seen_a = {}
    /\ seen_b = {}
    /\ heap = EmptyHeap
    /\ op = [name |-> "new", pre |-> new, code |-> 0, again |-> FALSE]

\* a.insert_hash(hash) with the next hash of the stream
DenseInsert ==
    \E ord \in Orders :
        /\ na < MaxDense
        /\ a' = insert_hash(a, DenseStream(na + 1), ord)
        /\ na' = na + 1
        /\ seen_a' = seen_a \cup {encode_hash(DenseStream(na + 1))}
        /\ op' = [name |-> "insert", pre |-> a,
                  code |-> encode_hash(DenseStream(na + 1)), again |-> FALSE]
        /\ x' = new
        /\ y' = new
        /\ UNCHANGED <<heap, P, W, b, nb, merges, seen_b>>

\* let mut b = a.clone(); b.insert_hash(hash), for a HyperLogLog a
Fork ==
    \E hash \in ForkHashes, ord \in Orders :
        /\ representation(a) = HyperLogLog
        /\ nb = 0
        /\ b = new
        /\ b' = insert_hash(clone(a, ord), hash, ord)
        /\ op' = [name |-> "fork", pre |-> a, code |-> encode_hash(hash), again |-> FALSE,
                  idx |-> Val(hash \cap Mask(P)), rank |-> hash_rank(hash)]
        /\ x' = new
        /\ y' = new
        /\ UNCHANGED <<heap, P, W, a, na, nb, merges, seen_a, seen_b>>

DenseNext == DenseInsert \/ InsertB \/ Fork \/ MergeBothWays

SpecDense == DenseInit /\ [][DenseNext]_vars

---------------------------------------------------------------------------
(* The claims *)

\* C1: after any sequence of insert_hash calls on a new estimator, while the
\* tag is Small, Slice or HashSet, estimate() is the number of distinct
\* encoded hashes inserted so far.
C1_EstimateExact ==
    /\ (merges = 0 /\ representation(a) # HyperLogLog)
           => estimate(a) = Cardinality(seen_a)
    /\ representation(b) # HyperLogLog => estimate(b) = Cardinality(seen_b)

\* a holds a full hash set built by inserts, two of which encoded alike
C1_Witness ==
    /\ merges = 0
    /\ op.name = "insert"
    /\ representation(a) = HashSet
    /\ Cardinality(seen_a) < na
    /\ estimate(a) = 28

\* C2: inserting a hash that was inserted before leaves estimate() as it
\* was, in every representation and at every promotion boundary.
C2_InsertIdempotent ==
    (op.name = "insert" /\ op.again) => estimate(a) = estimate(op.pre)

\* a hash set at its capacity was handed one of its own hashes again and
\* became a HyperLogLog with another estimate
C2_Witness ==
    /\ op.name = "insert"
    /\ op.again
    /\ representation(op.pre) = HashSet
    /\ op.code \in codes(op.pre)
    /\ representation(a) = HyperLogLog
    /\ estimate(a) # estimate(op.pre)

C4_TagStep ==
    /\ op.name = "insert"
           => representation(a) - representation(op.pre) \in {0, 1}
    /\ op.name = "insert_rhs"
           => representation(b) - representation(op.pre) \in {0, 1}

\* an insert took a hash set to a HyperLogLog
C4_Witness ==
    /\ op.name = "insert"
    /\ representation(op.pre) = HashSet
    /\ representation(a) = HyperLogLog

\* C5: a.clone() merged with b and b.clone() merged with a give the same
\* estimate, whatever the two representations.
C5_MergeCommutes == op.name = "merge_both" => estimate(x) = estimate(y)

\* merged one way the result is a HyperLogLog, merged the other way a hash
\* set, and the estimates differ
C5_Witness ==
    /\ op.name = "merge_both"
    /\ representation(a) = HashSet
    /\ representation(b) = Small
    /\ codes(b) \subseteq codes(a)
    /\ representation(x) = HyperLogLog
    /\ representation(y) = HashSet
    /\ estimate(x) # estimate(y)

\* C6: a.merge(&a.clone()) leaves a.estimate() as it was, in every
\* representation.
C6_MergeIdempotent == op.name = "merge_clone" => estimate(a) = estimate(op.pre)

\* a hash set at its capacity merged with its own clone became a
\* HyperLogLog with another estimate
C6_Witness ==
    /\ op.name = "merge_clone"
    /\ representation(op.pre) = HashSet
    /\ representation(a) = HyperLogLog
    /\ estimate(a) # estimate(op.pre)

\* C7: a.merge(&new()) leaves a's estimate and representation as they were,
\* and new() merged with a has a's estimate.
C7_MergeIdentity ==
    op.name = "merge_new"
        => /\ estimate(a) = estimate(op.pre)
           /\ representation(a) = representation(op.pre)
           /\ estimate(x) = estimate(op.pre)

\* a hash set at its capacity was merged with new(), and new() with it
C7_Witness ==
    /\ op.name = "merge_new"
    /\ representation(op.pre) = HashSet
    /\ set_capacity(as_hashset(op.pre)) = estimate(op.pre)
    /\ representation(x) = HashSet

\* C8: a.clone() equals a under PartialEq and has the same estimate, and a
\* is as it was before the clone.
C8_CloneEq ==
    op.name = "clone"
        => /\ eq(x, a)
           /\ estimate(x) = estimate(a)
           /\ a = op.pre

\* a slice with unused slots was cloned
C8_Witness ==
    /\ op.name = "clone"
    /\ representation(a) = Slice
    /\ slice_len(a) = 5
    /\ representation(x) = Slice

\* C9: when a.merge(&b) does not end in a HyperLogLog, a.estimate() is the
\* size of the union of the encoded hashes a and b held, a hash held by both
\* counted once.
C9_MergeUnion ==
    (op.name = "merge" /\ representation(a) # HyperLogLog)
        => estimate(a) = Cardinality(codes(op.pre) \cup codes(b))

\* a slice and a hash set with hashes in common were merged into a hash set
C9_Witness ==
    /\ op.name = "merge"
    /\ representation(op.pre) = Slice
    /\ representation(b) = HashSet
    /\ representation(a) = HashSet
    /\ codes(op.pre) \cap codes(b) # {}
    /\ estimate(a) < estimate(op.pre) + estimate(b)

C11_PromotionThreshold ==
    /\ (op.name = "insert" /\ representation(op.pre) = HashSet) =>
         ((representation(a) = HyperLogLog) <=>
            (/\ set_capacity(as_hashset(op.pre)) = Cardinality(as_hashset(op.pre).items)
             /\ 2 * allocation_size(as_hashset(op.pre)) > 4 * HLL_SLICE_LEN))
    /\ (P = 12 /\ W = 6 /\ Cardinality(seen_a) \in 17..448) => representation(a) = HashSet
    /\ (P = 12 /\ W = 6 /\ Cardinality(seen_a) >= 449) => representation(a) = HyperLogLog
    /\ (P = 10 /\ W = 5 /\ Cardinality(seen_a) \in 17..56) => representation(a) = HashSet
    /\ (P = 10 /\ W = 5 /\ Cardinality(seen_a) >= 57) => representation(a) = HyperLogLog

\* a full set of 448 codes (P = 12) was handed a code it already held
C11_Witness ==
    /\ P = 12
    /\ op.name = "insert"
    /\ representation(op.pre) = HashSet
    /\ Cardinality(as_hashset(op.pre).items) = 448
    /\ op.code \in as_hashset(op.pre).items
    /\ Cardinality(seen_a) = 448
    /\ representation(a) = HyperLogLog

\* C12: size_of() is the 8-byte state word plus the bytes of the owned
\* buffer: 8 for Small; 24, 40, 72 for a Slice of length 3..4, 5..8, 9..16;
\* 8 + 4 * (2^P * W / 32 + 3) for HyperLogLog (660 for P = 10, W = 5; 3092
\* for P = 12, W = 6; 196628 for P = 18, W = 6); and the call changes nothing
C12_SizeOf ==
    /\ (op.name = "size_of") =>
         /\ a = op.pre
         /\ representation(a) = Small => op.code = 8
         /\ representation(a) = Slice =>
              /\ slice_len(a) \in 3..16
              /\ op.code = 8 + 4 * Len(a.buf)
              /\ slice_len(a) \in 3..4 => op.code = 24
              /\ slice_len(a) \in 5..8 => op.code = 40
              /\ slice_len(a) \in 9..16 => op.code = 72
         /\ representation(a) = HashSet =>
              op.code = 8 + allocation_size(as_hashset(a))
         /\ representation(a) = HyperLogLog =>
              /\ op.code = 8 + 4 * ((Pow2(P) * W) \div 32 + 3)
              /\ op.code = 8 + 4 * Cardinality(DOMAIN a.buf)
              /\ (P = 10 /\ W = 5) => op.code = 660
              /\ (P = 12 /\ W = 6) => op.code = 3092
    /\ size_of(set_hll_data(new_hll_data)) = 8 + 4 * ((Pow2(P) * W) \div 32 + 3)
    /\ (P = 18 /\ W = 6) => size_of(set_hll_data(new_hll_data)) = 196628

\* size_of was called on the HyperLogLog estimator of P = 12, W = 6
C12_Witness ==
    /\ op.name = "size_of"
    /\ P = 12
    /\ representation(a) = HyperLogLog
    /\ op.code = 3092

\* C15: inserting an encoded hash that is already stored leaves the whole
\* estimator as it was (tag, stored codes, length, buffer) in Small, Slice
\* and HashSet alike: a duplicate never triggers growth or promotion
C15_DuplicateAbsorbed ==
    (/\ op.name = "insert"
     /\ representation(op.pre) # HyperLogLog
     /\ op.code \in codes(op.pre)) => a = op.pre

\* a full set of 56 codes (P = 10) was handed a code it already held
C15_Witness ==
    /\ P = 10
    /\ op.name = "insert"
    /\ representation(op.pre) = HashSet
    /\ op.code \in codes(op.pre)
    /\ Cardinality(codes(op.pre)) = 56
    /\ a # op.pre

\* C16 as stated: for P = 12, W = 6 and integers hashing to distinct codes,
\* inserting the integers 0..=2 (three of them) gives Small with estimate 2
\* and size 8; 0..=3 (four) gives Slice, 3 and 24; 0..=16 (seventeen) gives
\* Slice, 16 and 72; 0..=17 (eighteen) gives HashSet with estimate 17
C16_SeedScenarios ==
    (P = 12 /\ W = 6) =>
        /\ Cardinality(seen_a) = 3 =>
             /\ representation(a) = Small
             /\ estimate(a) = 2
             /\ size_of(a) = 8
        /\ Cardinality(seen_a) = 4 =>
             /\ representation(a) = Slice
             /\ estimate(a) = 3
             /\ size_of(a) = 24
        /\ Cardinality(seen_a) = 17 =>
             /\ representation(a) = Slice
             /\ estimate(a) = 16
             /\ size_of(a) = 72
        /\ Cardinality(seen_a) = 18 =>
             /\ representation(a) = HashSet
             /\ estimate(a) = 17

\* C16 amended: the scenarios hold for 2, 3, 16 and 17 inserted integers
\* (the ranges 0..2, 0..3, 0..16, 0..17 without their upper ends), as the
\* tests count them
C16_SeedScenariosCounted ==
    (P = 12 /\ W = 6) =>
        /\ Cardinality(seen_a) = 2 =>
             /\ representation(a) = Small
             /\ estimate(a) = 2
             /\ size_of(a) = 8
        /\ Cardinality(seen_a) = 3 =>
             /\ representation(a) = Slice
             /\ estimate(a) = 3
             /\ size_of(a) = 24
        /\ Cardinality(seen_a) = 16 =>
             /\ representation(a) = Slice
             /\ estimate(a) = 16
             /\ size_of(a) = 72
        /\ Cardinality(seen_a) = 17 =>
             /\ representation(a) = HashSet
             /\ estimate(a) = 17

\* the seventeenth distinct code has just been inserted for P = 12, W = 6
C16_Witness ==
    /\ P = 12
    /\ W = 6
    /\ op.name = "insert"
    /\ ~op.again
    /\ Cardinality(seen_a) = 17
    /\ representation(op.pre) = Slice
    /\ representation(a) = HashSet

\* C18: for every valid P and W and every register index below 2^P, the two
\* adjacent words get_register and set_register access lie inside the
\* HyperLogLog buffer of HLL_SLICE_LEN words
C18_WordsInBuffer ==
    (op.name = "register_words") =>
        /\ op.words[1] = (op.idx * W) \div 32 + 2
        /\ op.words[2] = (op.idx * W) \div 32 + 3
        /\ op.words[1] \in 0..(HLL_SLICE_LEN - 1)
        /\ op.words[2] \in 0..(HLL_SLICE_LEN - 1)

\* register 13 of the 16 five-bit registers: its second word is number 5 of
\* a buffer of 5 words
C18_Witness ==
    /\ P = 4
    /\ W = 5
    /\ HLL_SLICE_LEN = 5
    /\ op.name = "register_words"
    /\ op.idx = 13
    /\ op.words = <<4, 5>>

\* C19: for every hash and every valid P, W the rank encode_hash computes,
\* 1 + trailing zeros of ~h >> P, lies in 1..(64 - P + 1) and fits in W
\* bits, so that the low W bits of the code are the rank, the bits above
\* them are the (32 - W - 1)-bit index, and the code is non-zero and below
\* 2^31
C19_CodeLayout ==
    (op.name = "encode_hash") =>
        LET rank == 1 + trailing_zeros(Shr(Not64(op.hash), P))
            idx  == Val(op.hash \cap Mask(32 - W - 1))
        IN /\ rank \in 1..(64 - P + 1)
           /\ rank < Pow2(W)
           /\ op.code % Pow2(W) = rank
           /\ op.code \div Pow2(W) = idx
           /\ op.code # 0
           /\ op.code \div Pow2(30) < 2

\* P = 4, W = 4 and a hash whose bits 4..18 are ones: rank 16 does not fit
\* in four bits, the low four bits of the code are 0
C19_Witness ==
    /\ P = 4
    /\ W = 4
    /\ op.name = "encode_hash"
    /\ op.hash = CodecHash(0, 16)
    /\ op.code % Pow2(W) = 0
    /\ op.code \div Pow2(W) = Val(op.hash \cap Mask(32 - W - 1)) + 1

\* C20: for every hash, decode_hash(encode_hash(h)) is the direct
\* decomposition (h & (2^P - 1), 1 + trailing_zeros(~h >> P)) insert_hash
\* uses on a HyperLogLog, so the encoded path updates the same register with
\* the same rank
C20_DecodeEncode ==
    (op.name = "encode_hash") =>
        op.decoded = <<Val(op.hash \cap Mask(P)),
                       1 + trailing_zeros(Shr(Not64(op.hash), P))>>

\* P = 12, W = 6 and a hash whose bits 12..63 are all ones: register 0 and
\* rank 65 go in, register 1 and rank 1 come back
C20_Witness ==
    /\ P = 12
    /\ W = 6
    /\ op.name = "encode_hash"
    /\ op.hash = CodecHash(0, 65 - P)
    /\ 1 + trailing_zeros(Shr(Not64(op.hash), P)) = 65
    /\ op.decoded = <<1, 1>>

\* C17: in every reachable HyperLogLog state, whatever 64-bit hashes were
\* inserted, slot 0 of the buffer is the number of registers whose stored
\* rank is 0 and the harmonic sum in slot 1, as an exact rational, is the
\* sum over all 2^P registers of 2^(-stored rank)
C17_HllBookkeeping ==
    \A e \in {a, x} :
        representation(e) = HyperLogLog =>
            /\ as_hll_slice(e)[0] = zero_registers(as_hll_slice(e))
            /\ F32Exactly(as_hll_slice(e)[1], harmonic_sum(as_hll_slice(e), 0, M - 1))

\* W = 4: a hash of rank 16 went into a HyperLogLog whose register 0 held
\* rank 1; the register now holds 0 and slot 0 counts no register of rank 0
C17_Witness ==
    /\ W = 4
    /\ op.name = "insert_wide"
    /\ ~op.again
    /\ representation(x) = HyperLogLog
    /\ get_register(as_hll_slice(op.pre), 0) = 1
    /\ get_register(as_hll_slice(x), 0) = 0
    /\ as_hll_slice(x)[0] = 0
    /\ zero_registers(as_hll_slice(x)) = 1

\* C13: after any sequence of new, insert_hash, merge, clone and drop every
\* buffer is freed exactly once: a live estimator owns exactly the buffer
\* its state word points to (none when Small), a buffer replaced by growth
\* or promotion is freed at that step and drop frees the last one; there is
\* no leak, no double free and no use after free
C13_HeapDiscipline ==
    LET alive    == {"a", "b"} \ heap.dropped
        est(who) == IF who = "a" THEN a ELSE b
        owners   == {who \in alive : representation(est(who)) # Small}
    IN /\ heap.faults = {}
       /\ heap.live \cap heap.freed = {}
       /\ heap.live \cup heap.freed = 1..(heap.next - 1)
       /\ \A who \in owners : heap.own[who] \in heap.live
       /\ \A who \in owners : \A whose \in owners :
              who # whose => heap.own[who] # heap.own[whose]
       /\ heap.live = {heap.own[who] : who \in owners}

\* a was promoted from a full Slice to a HashSet and then dropped: the
\* buffer of the Slice is still allocated
C13_Witness ==
    /\ nb = 0
    /\ merges = 0
    /\ representation(a) = HashSet
    /\ heap.dropped = {"a", "b"}
    /\ heap.live # {}
    /\ heap.faults = {}

\* C14: self.merge(&rhs) leaves the state word and the buffer of rhs as they
\* were, whatever the two representations, and afterwards self and rhs do
\* not point at the same buffer: a self that becomes a HyperLogLog from a
\* HyperLogLog rhs holds its own copy of the registers
C14_MergeFrame ==
    /\ (op.name \in {"merge", "clone"}) =>
         LET whose == IF op.who = "a" THEN "b" ELSE "a"
             rhs   == IF op.who = "a" THEN b ELSE a
         IN /\ rhs = op.rhs
            /\ heap.own[whose] = op.code
            /\ representation(rhs) # Small => heap.own[whose] \in heap.live
    /\ (/\ heap.dropped = {}
        /\ representation(a) # Small
        /\ representation(b) # Small) => heap.own["a"] # heap.own["b"]

\* a Slice was merged with a HyperLogLog rhs and became a HyperLogLog with
\* a buffer of its own
C14_Witness ==
    /\ op.name = "merge"
    /\ representation(op.pre) = Slice
    /\ representation(op.rhs) = HyperLogLog
    /\ representation(a) = HyperLogLog
    /\ representation(b) = HyperLogLog
    /\ heap.own["a"] # heap.own["b"]
    /\ heap.own["a"] \in heap.live
    /\ heap.own["b"] \in heap.live

\* C24: in every reachable Small state the two 31-bit slots hold at most two
\* non-zero codes, distinct from each other, slot 2 is non-zero only if slot
\* 1 is, the tag is 00, and estimate() is the number of non-zero slots;
\* new() starts with both slots empty
C24_SmallState ==
    /\ new = [rep |-> 0, h1 |-> 0, h2 |-> 0, len |-> 0, buf |-> << >>]
    /\ op.name = "new" => (a = new /\ b = new /\ estimate(a) = 0)
    /\ \A who \in {"a", "b"} : LET e == IF who = "a" THEN a ELSE b IN
         representation(e) = Small =>
            /\ representation(e) = 0
            /\ small_h1(e) >= 0 /\ small_h1(e) \div Pow2(30) < 2
            /\ small_h2(e) >= 0 /\ small_h2(e) \div Pow2(30) < 2
            /\ small_h2(e) # 0 => small_h1(e) # 0
            /\ small_h2(e) # 0 => small_h2(e) # small_h1(e)
            /\ estimate(e) = Cardinality({small_h1(e), small_h2(e)} \ {0})
            /\ estimate(e) \in 0..2

\* a Small estimator with both slots taken was handed the code of slot 1
\* again
C24_Witness ==
    /\ op.name = "insert"
    /\ op.again
    /\ representation(op.pre) = Small
    /\ representation(a) = Small
    /\ small_h1(a) = op.code
    /\ small_h2(a) # 0
    /\ estimate(a) = 2

\* C25: in every reachable Slice state the first len entries of the buffer
\* are pairwise distinct non-zero codes and the entries from len up to the
\* capacity are zero, so that the scan of insert_into_slice finds a code
\* exactly when it is among the len stored entries
C25_SliceEntries ==
    /\ \A who \in {"a", "b"} : LET e == IF who = "a" THEN a ELSE b IN
         representation(e) = Slice =>
            /\ \A i \in 1..slice_len(e) : e.buf[i] # 0
            /\ \A i \in 1..slice_len(e) : \A j \in 1..slice_len(e) :
                   i # j => e.buf[i] # e.buf[j]
            /\ \A i \in (slice_len(e) + 1)..Len(e.buf) : e.buf[i] = 0
    /\ (op.name = "insert" /\ representation(op.pre) = Slice) =>
         ((representation(a) = Slice /\ a = op.pre) <=>
            (op.code \in {op.pre.buf[i] : i \in 1..slice_len(op.pre)}))

\* a Slice of five codes in eight slots was handed its fifth code again
C25_Witness ==
    /\ op.name = "insert"
    /\ op.again
    /\ representation(op.pre) = Slice
    /\ slice_len(op.pre) = 5
    /\ Len(op.pre.buf) = 8
    /\ op.pre.buf[5] = op.code
    /\ a = op.pre

\* C26: in every reachable Slice state the allocated capacity of the buffer
\* is next_power_of_two(len) and one of 4, 8, 16, so the capacity as_slice
\* and as_slice_mut derive from len is the size of the allocation, also
\* right after a doubling and right after a merge
C26_SliceCapacity ==
    \A who \in {"a", "b"} : LET e == IF who = "a" THEN a ELSE b IN
        representation(e) = Slice =>
            /\ Len(e.buf) = next_power_of_two(slice_len(e))
            /\ Len(e.buf) \in {4, 8, 16}
            /\ slice_len(e) \in 3..Len(e.buf)
            /\ Len(as_slice(e)) = Len(e.buf)
            /\ size_of(e) = 8 + 4 * Len(e.buf)

\* a merge doubled the slice of self from 8 to 16 slots
C26_Witness ==
    /\ op.name = "merge"
    /\ op.who = "a"
    /\ representation(op.pre) = Slice
    /\ Len(op.pre.buf) = 8
    /\ representation(a) = Slice
    /\ Len(a.buf) = 16
    /\ slice_len(a) > 9

\* C28: after self.merge(&rhs) the tag of self is at least as advanced, in
\* the order Small < Slice < HashSet < HyperLogLog, as the tag self had
\* before and as the tag of rhs; merging a HyperLogLog rhs into any
\* estimator yields a HyperLogLog
C28_MergeAdvances ==
    (op.name \in {"merge", "clone"}) =>
        LET self == IF op.who = "a" THEN a ELSE b
        IN /\ Small < Slice /\ Slice < HashSet /\ HashSet < HyperLogLog
           /\ representation(self) >= representation(op.pre)
           /\ representation(self) >= representation(op.rhs)
           /\ representation(op.rhs) = HyperLogLog =>
                  representation(self) = HyperLogLog

\* a HashSet was merged with a HyperLogLog rhs
C28_Witness ==
    /\ op.name = "merge"
    /\ representation(op.pre) = HashSet
    /\ representation(op.rhs) = HyperLogLog
    /\ representation(IF op.who = "a" THEN a ELSE b) = HyperLogLog

\* C29: for every register index idx below 2^P and every rank r below 2^W,
\* after set_register(idx, old, r) get_register(idx) returns r and
\* get_register of every other index returns what it returned before, also
\* for a register whose W bits straddle two 32-bit words
C29_RegisterRoundTrip ==
    (op.name = "set_register") =>
        /\ ~op.stops
        /\ get_register(op.after, op.idx) = op.rank
        /\ \A j \in (0..(M - 1)) \ {op.idx} :
              get_register(op.after, j) = get_register(op.before, j)

\* P = 4, W = 5: register 13 lies in word 4, the last of the buffer, and its
\* second word is past the buffer; the access stops the program
C29_Witness ==
    /\ P = 4
    /\ W = 5
    /\ op.name = "set_register"
    /\ op.idx = 13
    /\ register_words(13) = <<4, 5>>
    /\ HLL_SLICE_LEN = 5
    /\ op.stops

\* C22: on a HyperLogLog estimator insert_hash never decreases a register:
\* after the insertion of a hash with register idx and rank new_rank,
\* register idx holds the larger of its old rank and new_rank and every
\* other register is unchanged, for every rank a 64-bit hash can produce
C22_RegistersGrow ==
    (op.name = "insert_wide" /\ ~op.again) =>
        LET old == get_register(as_hll_slice(op.pre), op.idx)
            now == get_register(as_hll_slice(x), op.idx)
        IN /\ now >= old
           /\ now = (IF op.rank > old THEN op.rank ELSE old)
           /\ \A j \in (0..(M - 1)) \ {op.idx} :
                 get_register(as_hll_slice(x), j) = get_register(as_hll_slice(op.pre), j)

\* W = 4: register 0 holds rank 1, a hash of rank 16 is inserted, and
\* register 0 holds 0
C22_Witness ==
    /\ W = 4
    /\ op.name = "insert_wide"
    /\ ~op.again
    /\ op.idx = 0
    /\ op.rank = 16
    /\ get_register(as_hll_slice(op.pre), 0) = 1
    /\ get_register(as_hll_slice(x), 0) = 0

\* C27: insert_hash and merge perform no overflowing integer operation: the
\* ranks handed to set_register keep the shift amounts of 1u64 << old_rank
\* and 1u64 << new_rank below 64, and the count of zero registers never goes
\* below 0
C27_NoOverflow ==
    (op.name = "insert_wide") =>
        LET old == get_register(as_hll_slice(op.pre), op.idx)
        IN /\ op.rank > old => (op.rank < 64 /\ old < 64)
           /\ as_hll_slice(x)[0] >= 0
           /\ as_hll_slice(x)[0] <= as_hll_slice(op.pre)[0]

\* every bit of the hash from bit P upwards is one: its rank is 65, above
\* the rank of its register, and set_register shifts 1u64 by 65
C27_Witness ==
    /\ op.name = "insert_wide"
    /\ ~op.again
    /\ op.rank = 65
    /\ get_register(as_hll_slice(op.pre), op.idx) < 65
    /\ get_register(as_hll_slice(x), op.idx) = 65 % Pow2(W)

\* C21: the promotion to HyperLogLog loses nothing: right after an insert
\* promoted a HashSet, and after a Small, Slice or HashSet estimator merged
\* a HyperLogLog one, the register array is the one a HyperLogLog gets that
\* is fed the same hashes directly, in any order
C21_PromotionLossless ==
    /\ (op.name = "insert" /\ representation(op.pre) = HashSet
                           /\ representation(a) = HyperLogLog) =>
          \A back \in BOOLEAN :
             registers(as_hll_slice(a)) = registers(dense_hll(hashes_of(na, 0, back)))
    /\ (op.name = "merge_both" /\ representation(b) # HyperLogLog
                               /\ representation(a) = HyperLogLog) =>
          \A back \in BOOLEAN :
             registers(as_hll_slice(y)) = registers(dense_hll(hashes_of(na, nb, back)))

\* W = 4: the stream held a hash of register 1 and rank 16 after one of
\* rank 1; the promoted estimator has rank 1 in register 1, the HyperLogLog
\* fed the stream directly has rank 0 there
C21_Witness ==
    /\ W = 4
    /\ op.name = "insert"
    /\ representation(op.pre) = HashSet
    /\ representation(a) = HyperLogLog
    /\ get_register(as_hll_slice(a), 1) = 1
    /\ get_register(dense_hll(hashes_of(na, 0, FALSE)), 1) = 0

\* C23: after self.merge(&rhs) with both in the HyperLogLog representation
\* every register of self is the larger of its previous rank and rhs's, and
\* the register array and the count of zero registers are the same
\* whichever of the two is merged into the other
C23_HllMerge ==
    (op.name = "merge_both" /\ representation(a) = HyperLogLog
                            /\ representation(b) = HyperLogLog) =>
        /\ \A i \in 0..(M - 1) :
              LET lhs_rank == get_register(as_hll_slice(a), i)
                  rhs_rank == get_register(as_hll_slice(b), i)
              IN /\ get_register(as_hll_slice(x), i)
                       = (IF rhs_rank > lhs_rank THEN rhs_rank ELSE lhs_rank)
                 /\ get_register(as_hll_slice(y), i) = get_register(as_hll_slice(x), i)
        /\ as_hll_slice(x)[0] = as_hll_slice(y)[0]

\* W = 4: b is a clone of a that was fed a hash of rank 16 for a register of
\* rank 0; a.merge(&b) and b.merge(&a) have the same registers and zero
\* counts that differ by one
C23_Witness ==
    /\ W = 4
    /\ op.name = "merge_both"
    /\ representation(a) = HyperLogLog
    /\ representation(b) = HyperLogLog
    /\ registers(as_hll_slice(x)) = registers(as_hll_slice(y))
    /\ as_hll_slice(x)[0] = as_hll_slice(y)[0] + 1

=============================================================================
